---- MODULE Spec2Model ----
(***************************************************************************)
(* Model of doxycheck (src/doxycheck/__init__.py): the Doxycheck object's  *)
(* construction (input resolution) and its check() pipeline.               *)
(*                                                                         *)
(* Paths and log lines are Python strings: sequences of one-character      *)
(* strings.  The os.path functions the code calls are computed on those    *)
(* strings the way posixpath computes them.                                *)
(***************************************************************************)
EXTENDS Integers, Sequences, FiniteSets, TLC

VARIABLES
    pc,             \* position in Doxycheck(fname) ... check(...)
    fname,          \* the list handed to Doxycheck.__init__
    doxygen,        \* what the external generator will do: [ok, log]
    err,            \* the exception that ended the run, or NoError
    disk,           \* paths created on disk by this run (staging root and below)
    inputs,         \* self.inputs: ordered dict, name -> {in, out, files}
    explicit,       \* self.inputs as _resolve_explicit_inputs left it
    recursive_dirs, \* the local dict of _resolve_inputs_recursively
    call,           \* the arguments of the check(...) call
    phases,         \* the phases of the run, in the order they were reached
    printed,        \* what _show_doxygen_warnings printed, line by line
    browser         \* TRUE once webbrowser.open was called

vars == <<pc, fname, doxygen, err, disk, inputs, explicit, recursive_dirs,
          call, phases, printed, browser>>

----------------------------------------------------------------------------
(* Python strings                                                          *)

SEP == "/"
DOT == "."

\* the largest member of a set of indices, 0 for the empty set
Last0(S) == IF S = {} THEN 0 ELSE CHOOSE i \in S : \A j \in S : j <= i

\* str.rfind(ch): the last index of ch in s (1-based), 0 when absent.
rfind(s, ch) == Last0({i \in 1..Len(s) : s[i] = ch})

startswith(s, p) == Len(p) <= Len(s) /\ SubSeq(s, 1, Len(p)) = p

endswith(s, p) == Len(p) <= Len(s) /\ SubSeq(s, Len(s) - Len(p) + 1, Len(s)) = p

\* str.rstrip("/")
rstrip(s) == SubSeq(s, 1, Last0({i \in 1..Len(s) : s[i] # SEP}))

\* the k-th separator position among hits; 0 before the first, n + 1 after the last
Cut(hits, k, n) ==
    IF k = 0 THEN 0
    ELSE IF k > Cardinality(hits) THEN n + 1
    ELSE CHOOSE i \in hits : Cardinality({j \in hits : j < i}) = k - 1

\* the pieces of s between the separator positions hits
Pieces(s, hits) ==
    [k \in 1..(Cardinality(hits) + 1) |->
        SubSeq(s, Cut(hits, k - 1, Len(s)) + 1, Cut(hits, k, Len(s)) - 1)]

\* str.split(sep): the pieces between the separators, empty pieces kept.
split(s, sep) == Pieces(s, {i \in 1..Len(s) : s[i] = sep})

\* sep.join(parts)
RECURSIVE joinwith(_, _)
joinwith(sep, parts) ==
    IF parts = <<>> THEN <<>>
    ELSE IF Len(parts) = 1 THEN parts[1]
    ELSE parts[1] \o <<sep>> \o joinwith(sep, Tail(parts))

\* str.replace(old, "") from index i on: every non-overlapping occurrence of
\* old, scanning from the left, is removed.
RECURSIVE replace_from(_, _, _)
replace_from(s, old, i) ==
    IF i > Len(s) THEN <<>>
    ELSE IF i + Len(old) - 1 <= Len(s) /\ SubSeq(s, i, i + Len(old) - 1) = old
         THEN replace_from(s, old, i + Len(old))
    ELSE <<s[i]>> \o replace_from(s, old, i + 1)

\* str.replace(old, "")
replace(s, old) == replace_from(s, old, 1)

----------------------------------------------------------------------------
(* os.path (posixpath)                                                     *)

\* os.path.basename
basename(p) == SubSeq(p, rfind(p, SEP) + 1, Len(p))

\* the last two lines of os.path.dirname, on head = p[:i]
strip_head(head) ==
    IF head # <<>> /\ \E i \in 1..Len(head) : head[i] # SEP THEN rstrip(head) ELSE head

\* os.path.dirname
dirname(p) == strip_head(SubSeq(p, 1, rfind(p, SEP)))

\* os.path.join(a, b)
join(a, b) ==
    IF startswith(b, <<SEP>>) THEN b
    ELSE IF a = <<>> \/ endswith(a, <<SEP>>) THEN a \o b
    ELSE a \o <<SEP>> \o b

\* genericpath._splitext on the indices of the last separator and the last dot
splitext_at(p, sepIndex, dotIndex) ==
    IF dotIndex > sepIndex /\ \E i \in (sepIndex + 1)..(dotIndex - 1) : p[i] # DOT
    THEN [root |-> SubSeq(p, 1, dotIndex - 1), ext |-> SubSeq(p, dotIndex, Len(p))]
    ELSE [root |-> p, ext |-> <<>>]

\* os.path.splitext: [root, ext]; the extension starts at the last dot of the
\* last component, unless that component has only leading dots before it.
splitext(p) == splitext_at(p, rfind(p, SEP), rfind(p, DOT))

\* the loop of os.path.normpath over the components
RECURSIVE normcomps(_, _, _)
normcomps(comps, acc, rooted) ==
    IF comps = <<>> THEN acc
    ELSE IF Head(comps) = <<>> \/ Head(comps) = <<DOT>>
         THEN normcomps(Tail(comps), acc, rooted)
    ELSE IF Head(comps) # <<DOT, DOT>> \/ (~rooted /\ acc = <<>>)
            \/ (acc # <<>> /\ acc[Len(acc)] = <<DOT, DOT>>)
         THEN normcomps(Tail(comps), Append(acc, Head(comps)), rooted)
    ELSE normcomps(Tail(comps), SubSeq(acc, 1, Len(acc) - 1), rooted)

\* the end of os.path.normpath: the joined components, "/" put back in front
normjoin(body, rooted) ==
    IF rooted THEN <<SEP>> \o body ELSE IF body = <<>> THEN <<DOT>> ELSE body

\* os.path.normpath
normpath(p) ==
    IF p = <<>> THEN <<DOT>>
    ELSE normjoin(joinwith(SEP, normcomps(split(p, SEP), <<>>, startswith(p, <<SEP>>))),
                  startswith(p, <<SEP>>))

\* os.getcwd(): the directory the program is started in
cwd == <<"/", "w">>

\* os.path.abspath
abspath(p) == normpath(join(cwd, p))

\* os.path.realpath; the file system below has no symbolic links, so the
\* canonical path is the normalized absolute path.
realpath(p) == abspath(p)

\* the non-empty components of abspath(p)
abscomps(p) == SelectSeq(split(abspath(p), SEP), LAMBDA x : x # <<>>)

\* length of the common prefix of two component lists
RECURSIVE commonlen(_, _)
commonlen(a, b) ==
    IF a = <<>> \/ b = <<>> \/ Head(a) # Head(b) THEN 0
    ELSE 1 + commonlen(Tail(a), Tail(b))

\* the end of os.path.relpath: ".." for what is left of start, then the rest of path
relpath_from(start_list, path_list, i) ==
    IF Len(start_list) = i /\ Len(path_list) = i THEN <<DOT>>
    ELSE joinwith(SEP, [k \in 1..(Len(start_list) - i) |-> <<DOT, DOT>>]
                       \o SubSeq(path_list, i + 1, Len(path_list)))

relpath_lists(start_list, path_list) ==
    relpath_from(start_list, path_list, commonlen(start_list, path_list))

\* os.path.relpath(path, start)
relpath(path, start) == relpath_lists(abscomps(start), abscomps(path))

----------------------------------------------------------------------------
(* The file system the program runs against                                *)

m_c   == <<"m", ".", "c">>
n_t   == <<"n", ".", "t">>
a_c   == <<"a", ".", "c">>
a_h   == <<"a", ".", "h">>
b_cpp == <<"b", ".", "c", "p", "p">>
x_h   == <<"x", ".", "h">>
y_c   == <<"y", ".", "c">>
z_hpp == <<"z", ".", "h", "p", "p">>
pipe  == <<"p">>
zz    == <<"z", "z">>
lib   == <<"l", "i", "b">>
sub   == <<"s", "u", "b">>
inc   == <<"i", "n", "c">>
o     == <<"o">>
d     == <<"d">>
e     == <<"e">>

Entry(name, kind_) == [name |-> name, kind |-> kind_]

\* the absolute path with the components comps
Abs(comps) == <<SEP>> \o joinwith(SEP, comps)

\* Directory (absolute path) -> its listing, in the order scandir returns it.
\*   /w: m.c n.t p(fifo) lib/ inc/ o/        /w/lib: a.c a.h n.t sub/
\*   /w/lib/sub: b.cpp     /w/inc: d/        /w/inc/d: x.h
\*   /w/o: lib/ inc/       /w/o/lib: e/      /w/o/lib/e: y.c    /w/o/inc: z.hpp
FS ==
    (<<SEP>> :> <<Entry(<<"w">>, "dir")>>)
    @@ (cwd :> <<Entry(m_c, "file"), Entry(n_t, "file"), Entry(pipe, "fifo"),
                 Entry(lib, "dir"), Entry(inc, "dir"), Entry(o, "dir")>>)
    @@ (Abs(<<<<"w">>, lib>>) :> <<Entry(a_c, "file"), Entry(a_h, "file"),
                                   Entry(n_t, "file"), Entry(sub, "dir")>>)
    @@ (Abs(<<<<"w">>, lib, sub>>) :> <<Entry(b_cpp, "file")>>)
    @@ (Abs(<<<<"w">>, inc>>) :> <<Entry(d, "dir")>>)
    @@ (Abs(<<<<"w">>, inc, d>>) :> <<Entry(x_h, "file")>>)
    @@ (Abs(<<<<"w">>, o>>) :> <<Entry(lib, "dir"), Entry(inc, "dir")>>)
    @@ (Abs(<<<<"w">>, o, lib>>) :> <<Entry(e, "dir")>>)
    @@ (Abs(<<<<"w">>, o, lib, e>>) :> <<Entry(y_c, "file")>>)
    @@ (Abs(<<<<"w">>, o, inc>>) :> <<Entry(z_hpp, "file")>>)

\* the kind of the entry called nm in the listing ls, "none" when there is none
entry_kind(ls, nm) ==
    IF \E i \in 1..Len(ls) : ls[i].name = nm
    THEN ls[CHOOSE i \in 1..Len(ls) : ls[i].name = nm].kind
    ELSE "none"

\* what stat() finds in fs for the entry nm of the directory parent
lookup(fs, parent, nm) ==
    IF parent \in DOMAIN fs THEN entry_kind(fs[parent], nm) ELSE "none"

\* what stat() finds at the absolute, normalized path a
kind(a) == IF a = <<SEP>> THEN "dir" ELSE lookup(FS, dirname(a), basename(a))

\* a trailing slash demands a directory
stat_as(p, k) == IF endswith(p, <<SEP>>) /\ k # "dir" THEN "none" ELSE k

\* stat(p) for a path as the program writes it
stat(p) == IF p = <<>> THEN "none" ELSE stat_as(p, kind(abspath(p)))

exists(p) == stat(p) # "none"

\* the names of the entries es
names(es) == [i \in 1..Len(es) |-> es[i].name]

\* one step of os.walk: files are all the entries that are not directories
walk_entry(top, ls) ==
    [ root  |-> top,
      dirs  |-> names(SelectSeq(ls, LAMBDA en : en.kind = "dir")),
      files |-> names(SelectSeq(ls, LAMBDA en : en.kind # "dir")) ]

\* os.walk(top), top-down: one [root, dirs, files] per directory
RECURSIVE walk(_, _), walkdirs(_, _, _)
walk(fs, top) ==
    IF top \notin DOMAIN fs THEN <<>>
    ELSE <<walk_entry(top, fs[top])>> \o walkdirs(fs, top, walk_entry(top, fs[top]).dirs)
walkdirs(fs, top, dirs) ==
    IF dirs = <<>> THEN <<>>
    ELSE walk(fs, join(top, Head(dirs))) \o walkdirs(fs, top, Tail(dirs))

----------------------------------------------------------------------------
(* Doxycheck: constants and the dict self.inputs                           *)

\* Doxycheck.C_EXTS
C_EXTS ==
    { <<".", "c">>, <<".", "c", "c">>, <<".", "c", "x", "x">>,
      <<".", "c", "p", "p">>, <<".", "c", "+", "+">>,
      <<".", "h">>, <<".", "h", "h">>, <<".", "h", "x", "x">>,
      <<".", "h", "p", "p">>, <<".", "h", "+", "+">> }

\* self.outdir: the fresh directory tempfile.mkdtemp returns
outdir == <<"/", "t">>

\* self.doxygen_out
srcdir   == outdir \o <<"/", "s", "r", "c">>
builddir == outdir \o <<"/", "b", "u", "i", "l", "d", "/", "d", "o", "x", "y", "g", "e", "n">>
warnfile == outdir \o <<"/", "w", "a", "r", "n", ".", "l", "o", "g">>
doxyfile == outdir \o <<"/", "d", "o", "x", "y", "f", "i", "l", "e">>

\* self.sphinx_out (logfile and warnfile are never written)
sphinx_srcdir     == outdir \o <<"/", "s", "p", "h", "i", "n", "x">>
sphinx_outdir     == outdir \o <<"/", "b", "u", "i", "l", "d", "/", "s", "p", "h", "i", "n", "x">>
sphinx_doctreedir == outdir \o <<"/", "b", "u", "i", "l", "d", "/",
                                 "d", "o", "c", "t", "r", "e", "e", "s">>

NoError == [kind |-> "none", arg |-> <<>>]
Raise(kind_, arg) == [kind |-> kind_, arg |-> arg]

\* An ordered dict is a sequence of items [name, in, out, files] with
\* distinct names; files is a list of [in, out].
Keys(dct) == {dct[i].name : i \in 1..Len(dct)}

Get(dct, k) == dct[CHOOSE i \in 1..Len(dct) : dct[i].name = k]

\* dict.update({item.name: item}): an existing key keeps its position
update(dct, item) ==
    IF item.name \in Keys(dct)
    THEN [i \in 1..Len(dct) |-> IF dct[i].name = item.name THEN item ELSE dct[i]]
    ELSE Append(dct, item)

\* dct[k]["files"].append(f)
append_file(dct, k, f) ==
    [i \in 1..Len(dct) |->
        IF dct[i].name = k THEN [dct[i] EXCEPT !.files = Append(@, f)] ELSE dct[i]]

----------------------------------------------------------------------------
(* _resolve_explicit_inputs                                                *)

\* a classification that takes every regular file, whatever its extension
classify_any_file(f, k) ==
    IF k = "file" THEN "file"
    ELSE IF k = "dir" THEN "dir"
    ELSE "unknown"

\* the if / elif / else of lines 167-172, on k = what stat finds at f
classify_as(f, k) ==
    IF k = "file" /\ splitext(f).ext \in C_EXTS THEN "file"
    ELSE IF k = "dir" THEN "dir"
    ELSE "unknown"

classify(f) == classify_as(f, stat(f))

\* the members of fn whose class is c, in order
RECURSIVE select(_, _, _)
select(fn, cls, c) ==
    IF fn = <<>> THEN <<>>
    ELSE (IF Head(cls) = c THEN <<Head(fn)>> ELSE <<>>) \o select(Tail(fn), Tail(cls), c)

\* the "." item of line 175
DotRoot == [name |-> <<DOT>>, in |-> <<DOT>>, out |-> srcdir, files |-> <<>>]

\* the item built for directory dd, lines 182-192
DirRoot(dd) ==
    [ name  |-> basename(dd),
      in    |-> realpath(dd),
      out   |-> join(srcdir, basename(dd)),
      files |-> <<>> ]

\* the loop of lines 181-193
RECURSIVE add_explicit_dirs(_, _)
add_explicit_dirs(dct, dirs) ==
    IF dirs = <<>> THEN dct
    ELSE add_explicit_dirs(update(dct, DirRoot(Head(dirs))), Tail(dirs))

\* the file_dict of lines 196-205 for the explicit file f: it is computed
\* from dd, the value the loop variable d of lines 181-193 was left with.
ExplicitFileEntry(f, dd) == [in |-> realpath(dd), out |-> join(srcdir, basename(dd))]

\* the loop of lines 195-207
RECURSIVE add_explicit_files(_, _, _)
add_explicit_files(dct, files, dd) ==
    IF files = <<>> THEN dct
    ELSE add_explicit_files(append_file(dct, <<DOT>>, ExplicitFileEntry(Head(files), dd)),
                            Tail(files), dd)

\* lines 195-207 on the dict withdirs that lines 174-193 built; line 196
\* reads d, which is unbound when line 181 never iterated
attach_explicit_files(withdirs, files, dirs) ==
    IF files = <<>> THEN [err |-> NoError, inputs |-> withdirs]
    ELSE IF dirs = <<>>
         THEN [err |-> Raise("UnboundLocalError", <<"d">>), inputs |-> withdirs]
    ELSE [err |-> NoError, inputs |-> add_explicit_files(withdirs, files, dirs[Len(dirs)])]

\* lines 164-207 once every member of fn has its class
resolve_classified(dct, fn, cls) ==
    IF \E i \in 1..Len(fn) : cls[i] = "unknown"
    THEN [err |-> Raise("AssertionError",
                        fn[CHOOSE i \in 1..Len(fn) :
                              cls[i] = "unknown" /\ \A j \in 1..(i - 1) : cls[j] # "unknown"]),
          inputs |-> dct]
    ELSE attach_explicit_files(
             add_explicit_dirs(update(dct, DotRoot), select(fn, cls, "dir")),
             select(fn, cls, "file"), select(fn, cls, "dir"))

\* _resolve_explicit_inputs(fn) on self.inputs = dct: [err, inputs]
resolve_explicit_inputs(dct, fn) ==
    resolve_classified(dct, fn, [i \in 1..Len(fn) |-> classify(fn[i])])

----------------------------------------------------------------------------
(* _resolve_inputs_recursively                                             *)

\* the dir_dict of lines 224-234 for subdirectory dn of root, under Root R
RecursiveDirRoot(R, root, dn) ==
    [ name  |-> join(R.name, relpath(join(root, dn), R.in)),
      in    |-> join(root, dn),
      out   |-> realpath(join(join(R.out, relpath(root, R.in)), dn)),
      files |-> <<>> ]

\* the loop of lines 223-235
RECURSIVE add_dirs(_, _, _, _)
add_dirs(rd, R, root, dirs) ==
    IF dirs = <<>> THEN rd
    ELSE add_dirs(update(rd, RecursiveDirRoot(R, root, Head(dirs))), R, root, Tail(dirs))

\* the key of line 255 for file f of root, under Root R
FileDirname(R, root, f) == dirname(join(R.name, relpath(join(root, f), R.in)))

\* the file_dict of lines 244-253
RecursiveFileEntry(R, root, f) ==
    [ in  |-> join(root, f),
      out |-> realpath(join(join(R.out, relpath(root, R.in)), f)) ]

\* line 256 on st = [err, dirs]: recursive_dirs[key]["files"].append(entry)
attach(st, key, entry) ==
    IF key \notin Keys(st.dirs)
    THEN [err |-> Raise("KeyError", key), dirs |-> st.dirs]
    ELSE [err |-> NoError, dirs |-> append_file(st.dirs, key, entry)]

\* the loop of lines 237-256 on st = [err, dirs]
RECURSIVE add_files(_, _, _, _)
add_files(st, R, root, files) ==
    IF files = <<>> \/ st.err # NoError THEN st
    ELSE IF splitext(Head(files)).ext \notin C_EXTS THEN add_files(st, R, root, Tail(files))
    ELSE add_files(attach(st, FileDirname(R, root, Head(files)),
                          RecursiveFileEntry(R, root, Head(files))),
                   R, root, Tail(files))

\* the loop of line 220 over the entries of os.walk(R.in)
RECURSIVE walk_root(_, _, _)
walk_root(st, R, entries) ==
    IF entries = <<>> \/ st.err # NoError THEN st
    ELSE walk_root(add_files([err |-> NoError,
                              dirs |-> add_dirs(st.dirs, R, Head(entries).root,
                                                Head(entries).dirs)],
                             R, Head(entries).root, Head(entries).files),
                   R, Tail(entries))

\* the loop of line 213 over the items of self.inputs
RECURSIVE walk_roots(_, _)
walk_roots(st, items) ==
    IF items = <<>> \/ st.err # NoError THEN st
    ELSE IF Head(items).in = <<DOT>> THEN walk_roots(st, Tail(items))
    ELSE walk_roots(walk_root(st, Head(items), walk(FS, Head(items).in)), Tail(items))

\* {**b, **a}: a merge in which the items of a win
MergeKeepingFirst(a, b) == a \o SelectSeq(b, LAMBDA it : it.name \notin Keys(a))

\* {**a, **b} of line 258
RECURSIVE Merge(_, _)
Merge(a, b) == IF b = <<>> THEN a ELSE Merge(update(a, Head(b)), Tail(b))

\* line 258 on what the loop of line 213 left: [err, dirs, inputs]
merge_result(dct, st) ==
    [ err |-> st.err, dirs |-> st.dirs,
      inputs |-> IF st.err = NoError THEN Merge(dct, st.dirs) ELSE dct ]

\* _resolve_inputs_recursively on self.inputs = dct
resolve_inputs_recursively(dct) ==
    merge_result(dct, walk_roots([err |-> NoError, dirs |-> <<>>], dct))

----------------------------------------------------------------------------
(* check(): staging tree, generator log, sphinx stubs                      *)

Dir(p) == [path |-> p, kind |-> "dir"]
File(p) == [path |-> p, kind |-> "file"]

\* the directories with the components comps and every directory above
prefixes_of(comps) == {Abs(SubSeq(comps, 1, k)) : k \in 1..Len(comps)}

\* the path p and every directory above it, below the file system's root
Prefixes(p) == prefixes_of(SelectSeq(split(normpath(p), SEP), LAMBDA x : x # <<>>))

\* os.makedirs(p, exist_ok=True) on the created paths dk
makedirs(dk, p) == dk \cup {Dir(q) : q \in Prefixes(p)}

\* the two open() calls of line 296 on [err, disk], k = what stat finds at f.in
copy_file_as(st, f, k) ==
    IF k = "dir" THEN [err |-> Raise("IsADirectoryError", f.in), disk |-> st.disk]
    ELSE IF k # "file" THEN [err |-> Raise("FileNotFoundError", f.in), disk |-> st.disk]
    ELSE IF Dir(normpath(f.out)) \in st.disk
         THEN [err |-> Raise("IsADirectoryError", f.out), disk |-> st.disk]
    ELSE IF Dir(dirname(f.out)) \notin st.disk
         THEN [err |-> Raise("FileNotFoundError", f.out), disk |-> st.disk]
    ELSE [err |-> NoError, disk |-> st.disk \cup {File(f.out)}]

\* the copy of lines 296-298 of file entry f
copy_file(st, f) == copy_file_as(st, f, stat(f.in))

\* the loop of lines 295-298
RECURSIVE copy_files(_, _)
copy_files(st, files) ==
    IF files = <<>> \/ st.err # NoError THEN st
    ELSE copy_files(copy_file(st, Head(files)), Tail(files))

\* the loop of lines 290-298 over the items of self.inputs, on [err, disk]
RECURSIVE mirror(_, _)
mirror(st, items) ==
    IF items = <<>> \/ st.err # NoError THEN st
    ELSE mirror(copy_files([err |-> NoError, disk |-> makedirs(st.disk, Head(items).out)],
                           Head(items).files),
                Tail(items))

\* the string line 398 removes: srcdir followed by "/"
SrcPrefix == srcdir \o <<SEP>>

\* a display that removes the string only where a line starts with it
show_leading_prefix(log) ==
    [i \in 1..Len(log) |->
        IF startswith(log[i], SrcPrefix)
        THEN SubSeq(log[i], Len(SrcPrefix) + 1, Len(log[i]))
        ELSE log[i]]

\* what lines 397-399 print for the lines of the warning log
show_doxygen_warnings(log) == [i \in 1..Len(log) |-> replace(log[i], SrcPrefix)]

\* rst_file of lines 349-358 for file entry f of the Root named directory
RstFile(directory, f) ==
    join(sphinx_srcdir,
         splitext(joinwith("_", split(join(directory, basename(f.out)), SEP))).root
             \o <<".", "r", "s", "t">>)

\* the files lines 342-380 write for the items of self.inputs
RECURSIVE rst_files(_)
rst_files(items) ==
    IF items = <<>> THEN {}
    ELSE {File(RstFile(Head(items).name, Head(items).files[i])) :
              i \in 1..Len(Head(items).files)}
         \cup {File(join(sphinx_srcdir, <<"i", "n", "d", "e", "x", ".", "r", "s", "t">>))}
         \cup rst_files(Tail(items))

\* _generate_sphinx, lines 319-380, on the created paths dk
generate_sphinx(dk, items) ==
    dk \cup {Dir(sphinx_srcdir), Dir(sphinx_outdir), Dir(sphinx_doctreedir),
             File(join(sphinx_srcdir, <<"c", "o", "n", "f", ".", "p", "y">>))}
       \cup rst_files(items)

\* Lines of a warning log; LocHead is "a.c:1: w: ".
LocHead == <<"a", ".", "c", ":", "1", ":", " ", "w", ":", " ">>
LineStaged == SrcPrefix \o LocHead \o <<"m">>
LinePlain == LocHead \o <<"m">>
LineStagedMessage == SrcPrefix \o LocHead \o SrcPrefix \o <<"m">>
LineEmpty == <<>>
LineOther == <<" ", "m">>
LineOtherStaged == <<" ">> \o SrcPrefix \o <<"m">>
LineOverlap == SrcPrefix \o Tail(SrcPrefix) \o LocHead \o <<"m">>

LogLines ==
    {LineStaged, LinePlain, LineStagedMessage, LineEmpty, LineOther, LineOtherStaged,
     LineOverlap}

----------------------------------------------------------------------------
(* The state machine: Doxycheck(fname) followed by check(...)              *)

MaxInputs == 2
MaxLogLines == 2

\* the paths a caller may pass
Candidates ==
    {m_c, n_t, pipe, zz, lib, lib \o <<SEP>>, inc, o \o <<SEP>>, join(o, lib)}

InputLists == UNION {[1..n -> Candidates] : n \in 0..MaxInputs}

Logs == UNION {[1..n -> LogLines] : n \in 0..MaxLogLines}

NoCall == [made |-> FALSE, doxygen_html |-> FALSE, sphinx_html |-> FALSE,
           no_browser |-> "absent"]

InitWith(lists, generators) ==
    /\ pc = "new"
    /\ fname \in lists
    /\ doxygen \in generators
    /\ err = NoError
    /\ disk = {}
    /\ inputs = <<>>
    /\ explicit = <<>>
    /\ recursive_dirs = <<>>
    /\ call = NoCall
    /\ phases = <<>>
    /\ printed = <<>>
    /\ browser = FALSE

Init ==
    InitWith(InputLists,
             {[ok |-> FALSE, log |-> <<>>], [ok |-> TRUE, log |-> <<LineStaged, LineOther>>]})

InitWarnings ==
    InitWith({<<>>, <<inc>>}, {[ok |-> TRUE, log |-> l] : l \in Logs})

\* lines 85-87
CheckExists ==
    /\ pc = "new"
    /\ \E missing \in {{i \in 1..Len(fname) : ~exists(fname[i])}} :
           IF missing # {}
           THEN /\ pc' = "raised"
                /\ err' = Raise("AssertionError",
                                fname[CHOOSE i \in missing : \A j \in missing : i <= j])
           ELSE /\ pc' = "exists"
                /\ err' = err
    /\ UNCHANGED <<fname, doxygen, disk, inputs, explicit, recursive_dirs, call,
                   phases, printed, browser>>

\* lines 91-117: _mkdtemp creates the staging root
Mkdtemp ==
    /\ pc = "exists"
    /\ pc' = "created"
    /\ disk' = disk \cup {Dir(outdir)}
    /\ inputs' = <<>>
    /\ phases' = Append(phases, "Created")
    /\ UNCHANGED <<fname, doxygen, err, explicit, recursive_dirs, call, printed, browser>>

\* line 152
ResolveExplicit ==
    /\ pc = "created"
    /\ \E r \in {resolve_explicit_inputs(inputs, fname)} :
           /\ inputs' = r.inputs
           /\ explicit' = r.inputs
           /\ err' = r.err
           /\ pc' = IF r.err = NoError THEN "explicit" ELSE "raised"
    /\ UNCHANGED <<fname, doxygen, disk, recursive_dirs, call, phases, printed, browser>>

\* line 153
ResolveRecursive ==
    /\ pc = "explicit"
    /\ \E r \in {resolve_inputs_recursively(inputs)} :
           /\ inputs' = r.inputs
           /\ recursive_dirs' = r.dirs
           /\ err' = r.err
           /\ pc' = IF r.err = NoError THEN "constructed" ELSE "raised"
           /\ phases' = IF r.err = NoError THEN Append(phases, "Staged") ELSE phases
    /\ UNCHANGED <<fname, doxygen, disk, explicit, call, printed, browser>>

\* the call check(doxygen_html, sphinx_html[, no_browser=True]) and lines 260-265
Check ==
    /\ pc = "constructed"
    /\ \E dh \in BOOLEAN, sh \in BOOLEAN, nb \in {"absent", "True"} :
        /\ call' = [made |-> TRUE, doxygen_html |-> dh, sphinx_html |-> sh, no_browser |-> nb]
        /\ IF nb # "absent"
           \* check(self, doxygen_html, sphinx_html) takes no such keyword
           THEN /\ pc' = "raised"
                /\ err' = Raise("TypeError", <<"n", "o", "_", "b", "r", "o", "w", "s", "e", "r">>)
                /\ disk' = disk
           ELSE /\ pc' = "checking"
                /\ err' = err
                /\ disk' = makedirs(makedirs(disk, srcdir), builddir)
    /\ UNCHANGED <<fname, doxygen, inputs, explicit, recursive_dirs, phases, printed, browser>>

\* _generate_doxygen, lines 289-317: the mirror, the doxyfile, the generator
GenerateDoxygen ==
    /\ pc = "checking"
    /\ \E m \in {mirror([err |-> NoError, disk |-> disk], inputs)} :
           IF m.err # NoError
           THEN /\ pc' = "raised" /\ err' = m.err /\ disk' = m.disk /\ phases' = phases
           ELSE IF ~doxygen.ok
           THEN /\ pc' = "raised"
                /\ err' = Raise("GeneratorError", doxyfile)
                /\ disk' = m.disk \cup {File(doxyfile)}
                /\ phases' = phases
           ELSE /\ pc' = "mirrored"
                /\ err' = err
                /\ disk' = m.disk \cup {File(doxyfile), File(warnfile)}
                /\ phases' = Append(phases, "Mirrored")
    /\ UNCHANGED <<fname, doxygen, inputs, explicit, recursive_dirs, call, printed, browser>>

\* _show_doxygen_warnings, lines 395-399
ShowDoxygenWarnings ==
    /\ pc = "mirrored"
    /\ pc' = "reported"
    /\ printed' = show_doxygen_warnings(doxygen.log)
    /\ phases' = Append(phases, "Reported")
    /\ UNCHANGED <<fname, doxygen, err, disk, inputs, explicit, recursive_dirs, call, browser>>

\* lines 272-273 and _show_doxygen_html
ShowDoxygenHtml ==
    /\ pc = "reported"
    /\ pc' = "shown"
    /\ browser' = (browser \/ call.doxygen_html)
    /\ UNCHANGED <<fname, doxygen, err, disk, inputs, explicit, recursive_dirs, call,
                   phases, printed>>

\* lines 275-281: _generate_sphinx when asked for; check returns, and the
\* staging root stays (the call of _clear is commented out)
GenerateSphinx ==
    /\ pc = "shown"
    /\ pc' = "returned"
    /\ disk' = IF call.sphinx_html THEN generate_sphinx(disk, inputs) ELSE disk
    /\ UNCHANGED <<fname, doxygen, err, inputs, explicit, recursive_dirs, call, phases,
                   printed, browser>>

Next ==
    \/ CheckExists
    \/ Mkdtemp
    \/ ResolveExplicit
    \/ ResolveRecursive
    \/ Check
    \/ GenerateDoxygen
    \/ ShowDoxygenWarnings
    \/ ShowDoxygenHtml
    \/ GenerateSphinx

Spec == Init /\ [][Next]_vars

SpecWarnings == InitWarnings /\ [][Next]_vars

----------------------------------------------------------------------------
(* Properties: vocabulary                                                  *)

Range(s) == {s[i] : i \in 1..Len(s)}

\* the explicit pass has run and no assert has failed
ExplicitDone == pc \notin {"new", "exists", "created"} /\ err.kind # "AssertionError"

\* construction has ended, by returning or by raising, and no assert has failed
ConstructionDone == ExplicitDone /\ pc # "explicit"

\* _show_doxygen_warnings has run
Reported == pc \in {"reported", "shown", "returned"}

\* the files with a recognised extension in the directory top or below it
SourceFilesUnder(top) ==
    UNION { {join(w.root, f) : f \in {g \in Range(w.files) : splitext(g).ext \in C_EXTS}} :
            w \in Range(walk(FS, top)) }

\* where the mapping dct has a file entry with source p: <<item, index>> pairs
EntriesOf(dct, p) ==
    UNION { {<<i, k>> : k \in {n \in 1..Len(dct[i].files) : dct[i].files[n].in = p}} :
            i \in 1..Len(dct) }

\* an input that is no existing file with a recognised extension and no directory
Invalid(f) ==
    \/ stat(f) = "none"
    \/ stat(f) = "file" /\ splitext(f).ext \notin C_EXTS
    \/ stat(f) \notin {"file", "dir"}

\* one existing directory with source files at its top level and below it
IsTestInput(fn) ==
    /\ Len(fn) = 1
    /\ stat(fn[1]) = "dir"
    /\ \E p \in SourceFilesUnder(realpath(fn[1])) : dirname(p) = realpath(fn[1])
    /\ \E p \in SourceFilesUnder(realpath(fn[1])) : dirname(p) # realpath(fn[1])

Digits == {"0", "1", "2", "3", "4", "5", "6", "7", "8", "9"}

\* the first index from `from` on at which s holds ch, 0 when there is none
IndexFrom(s, ch, from) ==
    IF \E x \in from..Len(s) : s[x] = ch
    THEN CHOOSE x \in from..Len(s) : s[x] = ch /\ \A y \in from..(x - 1) : s[y] # ch
    ELSE 0

\* s reads <file>:<line>: <severity>: <message> with its colons at i, j and k
MatchesAt(s, i, j, k) ==
    /\ i > 1 /\ j > i + 1 /\ k > j + 2 /\ k + 2 <= Len(s)
    /\ \A x \in (i + 1)..(j - 1) : s[x] \in Digits
    /\ s[j + 1] = " " /\ s[k + 1] = " "
    /\ \A x \in (j + 2)..(k - 1) : s[x] # " "

\* s is a line of the grammar <file>:<line>: <severity>: <message>
Matches(s) ==
    LET i == IndexFrom(s, ":", 1)
        j == IF i = 0 THEN 0 ELSE IndexFrom(s, ":", i + 1)
        k == IF j = 0 THEN 0 ELSE IndexFrom(s, ":", j + 1)
    IN  MatchesAt(s, i, j, k)

\* a line of the grammar with the staging prefix taken off its file field
StripFileField(s) ==
    IF startswith(s, SrcPrefix) THEN SubSeq(s, Len(SrcPrefix) + 1, Len(s)) ELSE s

\* one warning per line of the grammar, in log order
WarningsOf(log) ==
    LET m == SelectSeq(log, Matches)
    IN  [i \in 1..Len(m) |-> StripFileField(m[i])]

\* where old occurs in s from i on, left to right, each occurrence starting
\* after the end of the one before
RECURSIVE Occurrences(_, _, _)
Occurrences(s, old, i) ==
    IF i + Len(old) - 1 > Len(s) THEN {}
    ELSE IF SubSeq(s, i, i + Len(old) - 1) = old
         THEN {i} \cup Occurrences(s, old, i + Len(old))
    ELSE Occurrences(s, old, i + 1)

\* the positions of s that lie in no such occurrence of old
Kept(s, old) ==
    {x \in 1..Len(s) : \A b \in Occurrences(s, old, 1) : x < b \/ x >= b + Len(old)}

\* s restricted to the positions K, in order
Restrict(s, K) ==
    [n \in 1..Cardinality(K) |-> s[CHOOSE x \in K : Cardinality({y \in K : y < x}) = n - 1]]

\* s without those occurrences of old
Without(s, old) == Restrict(s, Kept(s, old))

----------------------------------------------------------------------------
(* Properties                                                              *)

\* C1: once construction has ended, for every directory input every file in
\* it or below it with a recognised extension is the source of exactly one
\* file entry of self.inputs, that entry belongs to the Root whose source is
\* the file's own directory, and its destination relative to the Root's
\* destination is its source relative to the Root's source.
C1_EveryFileOnceUnderItsRoot ==
    ConstructionDone =>
        \A i \in 1..Len(fname) :
            classify(fname[i]) = "dir" =>
                \A p \in SourceFilesUnder(realpath(fname[i])) :
                    /\ Cardinality(EntriesOf(inputs, p)) = 1
                    /\ \A x \in EntriesOf(inputs, p) :
                           /\ inputs[x[1]].in = dirname(p)
                           /\ relpath(inputs[x[1]].files[x[2]].out, inputs[x[1]].out)
                                  = relpath(p, inputs[x[1]].in)

\* C2: once the explicit pass has run, every file-classified input has a
\* file entry under the "." Root whose source is the file's own resolved
\* path and whose destination is the file's basename under srcdir.
C2_ExplicitFileUnderDot ==
    ExplicitDone =>
        \A i \in 1..Len(fname) :
            classify(fname[i]) = "file" =>
                /\ <<DOT>> \in Keys(explicit)
                /\ [in |-> realpath(fname[i]), out |-> join(srcdir, basename(fname[i]))]
                       \in Range(Get(explicit, <<DOT>>).files)

\* C3: every file entry of every Root of self.inputs has a source that is a
\* regular file with an extension of C_EXTS.
C3_EntriesAreSourceFiles ==
    \A i \in 1..Len(inputs) :
        \A k \in 1..Len(inputs[i].files) :
            /\ splitext(inputs[i].files[k].in).ext \in C_EXTS
            /\ stat(inputs[i].files[k].in) = "file"

\* C4: once the explicit pass has run, two directory inputs that are
\* different directories with the same basename have two different Roots
\* with different destinations.
C4_SameBasenameTwoRoots ==
    ExplicitDone =>
        \A i, j \in 1..Len(fname) :
            ( /\ classify(fname[i]) = "dir" /\ classify(fname[j]) = "dir"
              /\ realpath(fname[i]) # realpath(fname[j])
              /\ basename(fname[i]) = basename(fname[j]) )
            => \E a, b \in 1..Len(explicit) :
                   /\ a # b
                   /\ explicit[a].in = realpath(fname[i])
                   /\ explicit[b].in = realpath(fname[j])
                   /\ explicit[a].out # explicit[b].out

\* C5: with an invalid input in the list the run never gets past the
\* constructor, which ends in an AssertionError naming an invalid member of
\* the list; self.inputs stays empty and nothing but the empty staging root
\* is ever created on disk.
C5_InvalidInputRejected ==
    (\E i \in 1..Len(fname) : Invalid(fname[i])) =>
        /\ pc \in {"new", "exists", "created", "raised"}
        /\ inputs = <<>>
        /\ disk \subseteq {Dir(outdir)}
        /\ pc = "raised" =>
               /\ err.kind = "AssertionError"
               /\ err.arg \in {f \in Range(fname) : Invalid(f)}

\* C5, its case: a list whose first member is a directory and whose second
\* is invalid has been rejected after the staging root was created.
C5_RejectedAfterDirectory ==
    /\ pc = "raised"
    /\ err.kind = "AssertionError"
    /\ Len(fname) = 2
    /\ classify(fname[1]) = "dir"
    /\ Invalid(fname[2])
    /\ Dir(outdir) \in disk

\* C6: when check has returned and neither doxygen_html nor sphinx_html was
\* asked for, the staging root is gone from the disk.
C6_CleanedUnlessViewing ==
    (pc = "returned" /\ ~call.doxygen_html /\ ~call.sphinx_html) => Dir(outdir) \notin disk

\* C7: for one directory with sources at its top level and below, nothing
\* raises, no browser is opened, and the phases come in the order Created,
\* Staged, Mirrored, Reported.
C7_TestRunReturns ==
    IsTestInput(fname) =>
        /\ err = NoError
        /\ ~browser
        /\ \E n \in 0..4 : phases = SubSeq(<<"Created", "Staged", "Mirrored", "Reported">>, 1, n)

\* C8 as written: what is printed is one warning per line of the grammar
\* <file>:<line>: <severity>: <message>, in log order, the staging prefix
\* taken off the file field only; other lines print nothing.
C8_OneWarningPerMatchingLine ==
    Reported => printed = WarningsOf(doxygen.log)

\* C8: every line of the log is printed, in log order, whether or not it is
\* a line of the grammar, without the occurrences of srcdir + "/" found in
\* it from left to right, wherever in the line they are.
C8_EveryLinePrintedWithoutPrefix ==
    Reported =>
        /\ Len(printed) = Len(doxygen.log)
        /\ \A i \in 1..Len(printed) : printed[i] = Without(doxygen.log[i], SrcPrefix)

\* C8, its case: a line outside the grammar was printed with the prefix
\* removed, and a line of the grammar lost the prefix inside its message.
C8_PrefixRemovedAnywhere ==
    /\ Reported
    /\ \E i \in 1..Len(printed) : ~Matches(doxygen.log[i]) /\ printed[i] # doxygen.log[i]
    /\ \E i \in 1..Len(printed) :
           Matches(doxygen.log[i]) /\ printed[i] # StripFileField(doxygen.log[i])

\* C9: the lookup recursive_dirs[file_dirname] of line 256 never fails.
C9_AttachTargetRegistered == err.kind # "KeyError"

====
